---- MODULE Spec2Model ----
(***************************************************************************)
(* Model of handler.py: the serverless transcription handler.              *)
(*                                                                         *)
(* One worker process serves jobs one after the other.  An invocation of   *)
(* handler() runs between its suspension points (the GET of download_audio *)
(* and the POST of _call_whisper_service); the local-model path is cut at  *)
(* the places where the temporary file comes into and goes out of          *)
(* existence.  Responses of the network, outcomes of the file system and   *)
(* of the whisper library are inputs of the steps that consume them.       *)
(***************************************************************************)
EXTENDS Integers, Sequences, FiniteSets

(***************************************************************************)
(* Bounds of the model.                                                    *)
(***************************************************************************)
\* longest base64 text given as "audio"
MaxStrLen == 4
\* most temporary files that may be left behind on the disk
MaxLeaked == 1

(***************************************************************************)
(* Python values.                                                          *)
(***************************************************************************)
\* Python's None, for the optional strings
None == "<None>"

\* a str is truthy iff it is set and non-empty (bool(x), `if x:`)
Truthy(s) == s # None /\ s # ""

\* the characters audio texts are made of: a base64 digit, the pad, a
\* character outside the base64 alphabet, a non-ASCII character
Chars == {"Q", "=", "!", "é"}

SeqsUpTo(S, n) == UNION {[1..k -> S] : k \in 0..n}

Strs == SeqsUpTo(Chars, MaxStrLen)

\* the byte strings the model draws (audio given as bytes, downloaded content)
SomeBytes == {<<>>, <<65>>}

\* the only URL jobs name in "audio_url"
AudioUrl == "https://example.com/audio.mp3"

(***************************************************************************)
(* Exceptions and results.  A call either returns a value or raises an     *)
(* exception e of some type, with str(e) = msg (a list of text parts, the  *)
(* parts of the f-string that built it).                                   *)
(***************************************************************************)
ReturnBytes(b) == [ok |-> TRUE, type |-> "", msg |-> <<>>, bytes |-> b]

RaiseB(t, m) == [ok |-> FALSE, type |-> t, msg |-> m, bytes |-> <<>>]

NoValue == [none |-> TRUE]

ReturnValue(v) == [ok |-> TRUE, type |-> "", msg |-> <<>>, value |-> v]

RaiseV(t, m) == [ok |-> FALSE, type |-> t, msg |-> m, value |-> NoValue]

(***************************************************************************)
(* base64.b64decode(s) with validate=False, as handler.py calls it:        *)
(* a str must be ASCII; binascii.a2b_base64 then skips every character     *)
(* that is not a base64 digit, stops at a complete pad sequence and fails  *)
(* when the digits do not fill their last quad.                            *)
(***************************************************************************)
IsAscii(c) == c # "é"

table_a2b_base64(c) ==
    CASE c = "A" -> 0
      [] c = "Q" -> 16
      [] c = "/" -> 63
      [] OTHER -> 64

RECURSIVE a2b_base64(_, _, _, _, _, _)
a2b_base64(s, i, quad_pos, leftchar, pads, out) ==
    IF i > Len(s)
    THEN IF quad_pos = 0 THEN ReturnBytes(out)
         ELSE IF quad_pos = 1
              THEN RaiseB("binascii.Error",
                          <<"Invalid base64-encoded string: number of data characters cannot be 1 more than a multiple of 4">>)
              ELSE RaiseB("binascii.Error", <<"Incorrect padding">>)
    ELSE LET ch == s[i]
             v  == table_a2b_base64(ch)
         IN  IF ch = "="
             THEN IF quad_pos >= 2 /\ quad_pos + pads + 1 >= 4
                  THEN ReturnBytes(out)
                  ELSE a2b_base64(s, i + 1, quad_pos, leftchar,
                                  IF quad_pos >= 2 THEN pads + 1 ELSE pads, out)
             ELSE IF v >= 64
             THEN a2b_base64(s, i + 1, quad_pos, leftchar, pads, out)
             ELSE CASE quad_pos = 0 ->
                         a2b_base64(s, i + 1, 1, v, 0, out)
                    [] quad_pos = 1 ->
                         a2b_base64(s, i + 1, 2, v % 16, 0,
                                    Append(out, (leftchar * 4 + v \div 16) % 256))
                    [] quad_pos = 2 ->
                         a2b_base64(s, i + 1, 3, v % 4, 0,
                                    Append(out, (leftchar * 16 + v \div 4) % 256))
                    [] OTHER ->
                         a2b_base64(s, i + 1, 0, 0, 0,
                                    Append(out, (leftchar * 64 + v) % 256))

b64decode(s) ==
    IF \E i \in 1..Len(s) : ~IsAscii(s[i])
    THEN RaiseB("ValueError", <<"string argument should contain only ASCII characters">>)
    ELSE a2b_base64(s, 1, 0, 0, 0, <<>>)

(***************************************************************************)
(* Jobs.  A job is a mapping that may hold "input"; the input is a mapping *)
(* (given by the keys it holds and their values) or, by a caller's         *)
(* mistake, some other value such as None.                                 *)
(***************************************************************************)
AudioStr(s) == [type |-> "str", str |-> s, bytes |-> <<>>]

AudioBytes(b) == [type |-> "bytes", str |-> <<>>, bytes |-> b]

\* an "audio" that is neither str nor bytes (None, a number, a list)
AudioOther == [type |-> "other", str |-> <<>>, bytes |-> <<>>]

OptionKeys == {"language", "task", "return_timestamps"}

Mapping(keys, audio) ==
    [mapping |-> TRUE, keys |-> keys, audio |-> audio, audio_url |-> AudioUrl,
     language |-> "en", task |-> "translate", return_timestamps |-> FALSE]

EmptyMapping == Mapping({}, AudioOther)

\* a job input that is no mapping
NonMapping == [EmptyMapping EXCEPT !.mapping = FALSE]

\* the inputs jobs carry: with and without "audio", with and without
\* "audio_url", with the options left out or all given
JobInputs ==
    {Mapping(uk \cup ok, AudioOther) : uk \in SUBSET {"audio_url"}, ok \in {{}, OptionKeys}}
    \cup {Mapping({"audio"} \cup uk \cup ok, a) :
             uk \in SUBSET {"audio_url"}, ok \in {{}, OptionKeys},
             a \in {AudioBytes(b) : b \in SomeBytes} \cup {AudioOther}}
    \cup {Mapping({"audio"} \cup uk, AudioStr(s)) :
             uk \in SUBSET {"audio_url"}, s \in Strs}

Jobs ==
    {[has_input |-> TRUE, input |-> ji] : ji \in JobInputs \cup {NonMapping}}
    \cup {[has_input |-> FALSE, input |-> EmptyMapping]}

\* job.get("input", {})
job_get_input(job) == IF job.has_input THEN job.input ELSE EmptyMapping

\* job_input.get("language")
get_language(ji) == IF "language" \in ji.keys THEN ji.language ELSE None

\* job_input.get("task", "transcribe")
get_task(ji) == IF "task" \in ji.keys THEN ji.task ELSE "transcribe"

\* job_input.get("return_timestamps", True)
get_return_timestamps(ji) ==
    IF "return_timestamps" \in ji.keys THEN ji.return_timestamps ELSE TRUE

(***************************************************************************)
(* process_audio_input: what it does up to its only await.  It returns     *)
(* bytes, raises, or goes on to download_audio(url).                       *)
(***************************************************************************)
Resolved(res) == [kind |-> "done", res |-> res]

NeedsDownload == [kind |-> "download", res |-> ReturnBytes(<<>>)]

MissingInputMsg == <<"No audio input provided. Use 'audio' (base64) or 'audio_url'">>

\* a process_audio_input that hands on empty audio when none is given
process_audio_input_empty(ji) ==
    IF "audio" \in ji.keys
    THEN IF ji.audio.type = "str"
         THEN LET d == b64decode(ji.audio.str)
              IN  IF d.ok THEN Resolved(d)
                  ELSE Resolved(RaiseB("ValueError",
                                       <<"Invalid base64 audio data: ">> \o d.msg))
         ELSE IF ji.audio.type = "bytes"
         THEN Resolved(ReturnBytes(ji.audio.bytes))
         ELSE Resolved(RaiseB("ValueError",
                              <<"Audio data must be base64 string or bytes">>))
    ELSE IF "audio_url" \in ji.keys
    THEN NeedsDownload
    ELSE Resolved(ReturnBytes(<<>>))

\* a process_audio_input that goes on to the URL when "audio" is of no use
process_audio_input_fallthrough(ji) ==
    IF "audio" \in ji.keys /\ ji.audio.type = "str"
    THEN LET d == b64decode(ji.audio.str)
         IN  IF d.ok THEN Resolved(d)
             ELSE Resolved(RaiseB("ValueError",
                                  <<"Invalid base64 audio data: ">> \o d.msg))
    ELSE IF "audio" \in ji.keys /\ ji.audio.type = "bytes"
    THEN Resolved(ReturnBytes(ji.audio.bytes))
    ELSE IF "audio_url" \in ji.keys
    THEN NeedsDownload
    ELSE Resolved(RaiseB("ValueError", MissingInputMsg))

process_audio_input(ji) ==
    IF "audio" \in ji.keys
    THEN IF ji.audio.type = "str"
         THEN LET d == b64decode(ji.audio.str)
              IN  IF d.ok THEN Resolved(d)
                  ELSE Resolved(RaiseB("ValueError",
                                       <<"Invalid base64 audio data: ">> \o d.msg))
         ELSE IF ji.audio.type = "bytes"
         THEN Resolved(ReturnBytes(ji.audio.bytes))
         ELSE Resolved(RaiseB("ValueError",
                              <<"Audio data must be base64 string or bytes">>))
    ELSE IF "audio_url" \in ji.keys
    THEN NeedsDownload
    ELSE Resolved(RaiseB("ValueError", MissingInputMsg))

(***************************************************************************)
(* The network: requests sent and the answers the steps consume.           *)
(***************************************************************************)
GetTimeout == 60

PostTimeout == 300

\* what httpx hands back: a response with a status, or a transport failure
\* (a subclass of httpx.HTTPError) raised by the call
GetResponses ==
    {[kind |-> "response", status_code |-> 200, content |-> b] : b \in SomeBytes}
    \cup {[kind |-> "response", status_code |-> c, content |-> <<>>] : c \in {404, 500}}
    \cup {[kind |-> k, status_code |-> 0, content |-> <<>>] :
             k \in {"ConnectError", "ReadTimeout"}}

\* the JSON documents a backend answers with
JsonBodies ==
    {[text |-> "hello", segments |-> <<>>, language |-> "en"],
     [text |-> "hello", segments |-> <<>>, language |-> "en", processing_time |-> "2.5"],
     [detail |-> "no speech"]}

NoBody == [none |-> TRUE]

PostResponses ==
    {[kind |-> "response", status_code |-> 200, is_json |-> TRUE, body |-> b] :
         b \in JsonBodies}
    \cup {[kind |-> "response", status_code |-> c, is_json |-> FALSE, body |-> NoBody] :
             c \in {200, 500}}
    \cup {[kind |-> k, status_code |-> 0, is_json |-> FALSE, body |-> NoBody] :
             k \in {"ConnectError", "ReadTimeout"}}

\* response.raise_for_status() raises unless the status is a success
is_success(resp) == 200 <= resp.status_code /\ resp.status_code <= 299

\* str(e) of the httpx.HTTPError a failed exchange raises
HTTPErrorText(resp) ==
    IF resp.kind # "response" THEN resp.kind
    ELSE IF resp.status_code = 404 THEN "Client error '404 Not Found'"
    ELSE "Server error '500 Internal Server Error'"

\* a download_audio that probes the URL before it fetches it
download_audio_requests_twice(url) ==
    <<[method |-> "GET", url |-> <<url>>, timeout |-> GetTimeout],
      [method |-> "GET", url |-> <<url>>, timeout |-> GetTimeout]>>

\* the requests download_audio sends for a URL
download_audio_requests(url) ==
    <<[method |-> "GET", url |-> <<url>>, timeout |-> GetTimeout]>>

\* a download_audio that leaves out raise_for_status and swallows failures
download_audio_unchecked(resp) == ReturnBytes(resp.content)

\* download_audio once its GET is answered
download_audio(resp) ==
    IF resp.kind = "response" /\ is_success(resp)
    THEN ReturnBytes(resp.content)
    ELSE RaiseB("Exception",
                <<"Failed to download audio from URL: ", HTTPErrorText(resp)>>)

(***************************************************************************)
(* The environment and WhisperTranscriber.                                 *)
(***************************************************************************)
BackendUrl == "http://whisper:8000"

Envs ==
    [WHISPER_SERVICE_URL : {None, "", BackendUrl},
     WHISPER_API_TOKEN   : {None, "tok"},
     WHISPER_MODEL       : {None, "large-v3"}]

\* os.getenv(name, default)
getenv(e, name, default) == IF e[name] = None THEN default ELSE e[name]

NoTranscriber ==
    [whisper_service_url |-> None, whisper_api_token |-> None,
     use_external_service |-> FALSE, built |-> FALSE]

\* WhisperTranscriber.__init__
WhisperTranscriber(e) ==
    [whisper_service_url  |-> getenv(e, "WHISPER_SERVICE_URL", None),
     whisper_api_token    |-> getenv(e, "WHISPER_API_TOKEN", None),
     use_external_service |-> Truthy(getenv(e, "WHISPER_SERVICE_URL", None)),
     built                |-> TRUE]

\* the form fields of the POST
payload(language, task, return_timestamps) ==
    IF Truthy(language)
    THEN [task |-> task, return_timestamps |-> return_timestamps, language |-> language]
    ELSE [task |-> task, return_timestamps |-> return_timestamps]

\* the headers of the POST
headers(t) ==
    IF Truthy(t.whisper_api_token)
    THEN [Authorization |-> <<"Bearer ", t.whisper_api_token>>]
    ELSE <<>>

\* the requests _call_whisper_service sends
call_whisper_service_requests(t, audio, language, task, return_timestamps) ==
    <<[method  |-> "POST",
       url     |-> <<t.whisper_service_url, "/transcribe">>,
       files   |-> [audio |-> <<"audio.wav", audio, "audio/wav">>],
       data    |-> payload(language, task, return_timestamps),
       headers |-> headers(t),
       timeout |-> PostTimeout]>>

WhisperServicePrefix == "Failed to call Whisper service: "

\* a _call_whisper_service that picks the fields it knows out of the body
call_whisper_service_reshaped(resp) ==
    IF resp.kind = "response" /\ is_success(resp)
    THEN IF resp.is_json /\ "text" \in DOMAIN resp.body
         THEN ReturnValue([text |-> resp.body.text, segments |-> resp.body.segments,
                           language |-> resp.body.language])
         ELSE RaiseV("KeyError", <<"'text'">>)
    ELSE RaiseV("Exception", <<WhisperServicePrefix, HTTPErrorText(resp)>>)

\* a _call_whisper_service that lets the httpx error through as it is
call_whisper_service_unwrapped(resp) ==
    IF resp.kind = "response" /\ is_success(resp)
    THEN IF resp.is_json THEN ReturnValue(resp.body)
         ELSE RaiseV("JSONDecodeError", <<"Expecting value: line 1 column 1 (char 0)">>)
    ELSE RaiseV("Exception", <<HTTPErrorText(resp)>>)

\* _call_whisper_service once its POST is answered
call_whisper_service(resp) ==
    IF resp.kind = "response" /\ is_success(resp)
    THEN IF resp.is_json THEN ReturnValue(resp.body)
         ELSE RaiseV("JSONDecodeError", <<"Expecting value: line 1 column 1 (char 0)">>)
    ELSE RaiseV("Exception", <<WhisperServicePrefix, HTTPErrorText(resp)>>)

\* which of the two paths transcribe_audio takes
transcribe_audio_path(t) == IF t.use_external_service THEN "external" ELSE "local"

NotInstalledMsg ==
    <<"Whisper not installed locally and no WHISPER_SERVICE_URL provided. ",
      "Please install openai-whisper or configure WHISPER_SERVICE_URL.">>

\* an ImportError that is let through as it is
import_error_reraised == RaiseV("ImportError", <<"No module named 'whisper'">>)

\* lines 194-198: what an ImportError inside the try block is turned into
import_error_exception == RaiseV("Exception", NotInstalledMsg)

\* what model.transcribe hands back: a dict, or an exception
ModelResults ==
    {[text |-> " hello", segments |-> <<"s0">>, language |-> "en"],
     [text |-> " hello"],
     [segments |-> <<>>]}

\* the dict _use_local_whisper builds from the model's
local_result(result, language) ==
    IF "text" \notin DOMAIN result
    THEN RaiseV("KeyError", <<"'text'">>)
    ELSE ReturnValue(
           [text     |-> result.text,
            segments |-> IF "segments" \in DOMAIN result THEN result.segments ELSE <<>>,
            language |-> IF "language" \in DOMAIN result THEN result.language
                         ELSE language])

(***************************************************************************)
(* handler's two exits.                                                    *)
(***************************************************************************)
NoResult == [status |-> "none"]

SuccessEnvelope(t) == [status |-> "success", transcription |-> t]

ErrorEnvelope(m) == [status |-> "error", error |-> m]

\* the exception types the model raises; all derive from Exception
ExceptionTypes ==
    {"Exception", "ValueError", "AttributeError", "JSONDecodeError", "OSError",
     "RuntimeError", "KeyError", "ImportError"}

\* a handler that catches the input errors only
handler_catches_ValueError(type) == type = "ValueError"

\* `except Exception`
handler_catches(type) == type \in ExceptionTypes

(***************************************************************************)
(* State.                                                                  *)
(***************************************************************************)
VARIABLES
    env,           \* os.environ of the worker process
    whisper_installed, \* whether whisper and torch can be imported in this runtime
    startup_env,   \* history: os.environ when the process started
    pc,            \* where the current invocation of handler stands
    job_input,     \* handler's job_input
    audio_bytes,   \* handler's audio_bytes
    transcriber,   \* handler's transcriber
    netLog,        \* the requests this invocation has sent, in order
    getResp,       \* the answer to this invocation's GET
    postResp,      \* the answer to this invocation's POST
    imported,      \* how `import whisper; import torch` ended
    model_name,    \* the model _use_local_whisper loaded
    tmpFiles,      \* the temporary files that exist on the disk
    tmp_file,      \* the file NamedTemporaryFile created in this invocation
    tmp_path,      \* _use_local_whisper's tmp_path
    result         \* what handler returned

vars ==
    <<env, whisper_installed, startup_env, pc, job_input, audio_bytes, transcriber, netLog, getResp,
      postResp, imported, model_name, tmpFiles, tmp_file, tmp_path, result>>

NoGetResp == [kind |-> "none", status_code |-> 0, content |-> <<>>]

NoPostResp == [kind |-> "none", status_code |-> 0, is_json |-> FALSE, body |-> NoBody]

\* no file
NoFile == 0

Init ==
    /\ env \in Envs
    /\ whisper_installed \in BOOLEAN
    /\ startup_env = env
    /\ pc = "idle"
    /\ job_input = EmptyMapping
    /\ audio_bytes = <<>>
    /\ transcriber = NoTranscriber
    /\ netLog = <<>>
    /\ getResp = NoGetResp
    /\ postResp = NoPostResp
    /\ imported = "no"
    /\ model_name = None
    /\ tmpFiles = {}
    /\ tmp_file = NoFile
    /\ tmp_path = NoFile
    /\ result = NoResult

(***************************************************************************)
(* handler, lines 282-292: the success envelope, or the error envelope of  *)
(* a caught exception; an exception the except clause does not catch       *)
(* leaves handler.                                                         *)
(***************************************************************************)
HandlerExit(outcome, value) ==
    IF outcome.ok
    THEN pc' = "done" /\ result' = SuccessEnvelope(value)
    ELSE IF handler_catches(outcome.type)
    THEN pc' = "done" /\ result' = ErrorEnvelope(outcome.msg)
    ELSE pc' = "raised" /\ result' = NoResult

(***************************************************************************)
(* handler, lines 269-280, with transcribe_audio up to the POST of         *)
(* _call_whisper_service or the entry of _use_local_whisper.               *)
(***************************************************************************)
Transcribe(ji, bytes, log) ==
    LET t == WhisperTranscriber(env)
    IN  /\ audio_bytes' = bytes
        /\ transcriber' = t
        /\ result' = NoResult
        /\ IF transcribe_audio_path(t) = "external"
           THEN /\ netLog' = log \o call_whisper_service_requests(
                                 t, bytes, get_language(ji), get_task(ji),
                                 get_return_timestamps(ji))
                /\ pc' = "post_wait"
           ELSE /\ netLog' = log
                /\ pc' = "local_load"

\* handler is called with a job: lines 256-268, up to the first await
Handler(jobs) ==
    /\ pc = "idle"
    /\ \E job \in jobs :
        LET ji == job_get_input(job)
        IN  /\ job_input' = ji
            /\ IF ~ji.mapping
               THEN /\ HandlerExit(RaiseB("AttributeError",
                           <<"'NoneType' object has no attribute 'keys'">>), NoValue)
                    /\ UNCHANGED <<audio_bytes, transcriber, netLog>>
               ELSE LET p == process_audio_input(ji)
                    IN  IF p.kind = "download"
                        THEN /\ netLog' = download_audio_requests(ji.audio_url)
                             /\ pc' = "get_wait"
                             /\ UNCHANGED <<audio_bytes, transcriber, result>>
                        ELSE IF p.res.ok
                        THEN Transcribe(ji, p.res.bytes, <<>>)
                        ELSE /\ HandlerExit(p.res, NoValue)
                             /\ UNCHANGED <<audio_bytes, transcriber, netLog>>
            /\ UNCHANGED <<env, whisper_installed, startup_env, getResp, postResp, imported, model_name,
                           tmpFiles, tmp_file, tmp_path>>

\* the GET of download_audio is answered: lines 207-212, then handler goes on
GetResponse ==
    /\ pc = "get_wait"
    /\ \E resp \in GetResponses :
        LET r == download_audio(resp)
        IN  /\ getResp' = resp
            /\ IF r.ok
               THEN Transcribe(job_input, r.bytes, netLog)
               ELSE /\ HandlerExit(r, NoValue)
                    /\ UNCHANGED <<audio_bytes, transcriber, netLog>>
            /\ UNCHANGED <<env, whisper_installed, startup_env, job_input, postResp, imported, model_name,
                           tmpFiles, tmp_file, tmp_path>>

\* the POST of _call_whisper_service is answered: lines 143-147, then handler ends
PostResponse ==
    /\ pc = "post_wait"
    /\ \E resp \in PostResponses :
        LET r == call_whisper_service(resp)
        IN  /\ postResp' = resp
            /\ HandlerExit(r, r.value)
            /\ UNCHANGED <<env, whisper_installed, startup_env, job_input, audio_bytes, transcriber, netLog,
                           getResp, imported, model_name, tmpFiles, tmp_file, tmp_path>>

(***************************************************************************)
(* _use_local_whisper.                                                     *)
(***************************************************************************)
\* the names a temporary file can get
FileNames == 1..(MaxLeaked + 1)

\* the name NamedTemporaryFile picks: one no file has (names are alike, so
\* the model takes the first)
mkstemp(files) == CHOOSE f \in FileNames \ files : \A g \in FileNames \ files : f <= g

\* lines 159-168 and 194-198: the imports and whisper.load_model
LocalLoad ==
    /\ pc = "local_load"
    /\ \E load \in {"ok", "RuntimeError"} :
        /\ imported' = IF whisper_installed THEN "ok" ELSE "ImportError"
        /\ IF ~whisper_installed
           THEN /\ HandlerExit(import_error_exception, NoValue)
                /\ UNCHANGED model_name
           ELSE /\ model_name' = getenv(env, "WHISPER_MODEL", "base")
                /\ IF load = "ok"
                   THEN pc' = "local_tmp" /\ UNCHANGED result
                   ELSE HandlerExit(RaiseV("RuntimeError", <<"load_model failed">>),
                                    NoValue)
        /\ UNCHANGED <<env, whisper_installed, startup_env, job_input, audio_bytes, transcriber, netLog,
                       getResp, postResp, tmpFiles, tmp_file, tmp_path>>

\* lines 171-173: NamedTemporaryFile(delete=False) creates a file under an
\* unused name, the audio is written to it, and leaving the `with` closes it
\* (a file made with delete=False stays when it is closed)
LocalTmp ==
    /\ pc = "local_tmp"
    /\ \E outcome \in {"ok", "create_fails", "write_fails"} :
      LET f == mkstemp(tmpFiles) IN
        /\ outcome = "write_fails" => Cardinality(tmpFiles) < MaxLeaked
        /\ CASE outcome = "ok" ->
                  /\ tmpFiles' = tmpFiles \cup {f}
                  /\ tmp_file' = f
                  /\ tmp_path' = f
                  /\ pc' = "local_transcribe"
                  /\ UNCHANGED result
             [] outcome = "write_fails" ->
                  /\ tmpFiles' = tmpFiles \cup {f}
                  /\ tmp_file' = f
                  /\ UNCHANGED tmp_path
                  /\ HandlerExit(RaiseV("OSError",
                                        <<"[Errno 28] No space left on device">>), NoValue)
             [] OTHER ->
                  /\ UNCHANGED <<tmpFiles, tmp_file, tmp_path>>
                  /\ HandlerExit(RaiseV("OSError",
                                        <<"[Errno 24] Too many open files">>), NoValue)
        /\ UNCHANGED <<env, whisper_installed, startup_env, job_input, audio_bytes, transcriber, netLog,
                       getResp, postResp, imported, model_name>>

\* what model.transcribe does: a result, a failure of the model, or an
\* import that fails late
ModelOutcomes ==
    {[kind |-> "result", result |-> r] : r \in ModelResults}
    \cup {[kind |-> k, result |-> [segments |-> <<>>]] : k \in {"RuntimeError", "ImportError"}}

\* lines 175-198: model.transcribe, the result, and the finally clause
LocalTranscribe ==
    /\ pc = "local_transcribe"
    /\ \E o \in ModelOutcomes :
        LET r == CASE o.kind = "result" -> local_result(o.result, get_language(job_input))
                   [] o.kind = "ImportError" -> import_error_exception
                   [] OTHER -> RaiseV("RuntimeError", <<"transcribe failed">>)
        IN  /\ tmpFiles' = tmpFiles \ {tmp_path}
            /\ HandlerExit(r, r.value)
            /\ UNCHANGED <<env, whisper_installed, startup_env, job_input, audio_bytes, transcriber, netLog,
                           getResp, postResp, imported, model_name, tmp_file, tmp_path>>

(***************************************************************************)
(* Between invocations.                                                    *)
(***************************************************************************)
\* the caller has the envelope (or the exception); handler's locals are gone
Return ==
    /\ pc \in {"done", "raised"}
    /\ pc' = "idle"
    /\ job_input' = EmptyMapping
    /\ audio_bytes' = <<>>
    /\ transcriber' = NoTranscriber
    /\ netLog' = <<>>
    /\ getResp' = NoGetResp
    /\ postResp' = NoPostResp
    /\ imported' = "no"
    /\ model_name' = None
    /\ tmp_file' = NoFile
    /\ tmp_path' = NoFile
    /\ result' = NoResult
    /\ UNCHANGED <<env, whisper_installed, startup_env, tmpFiles>>

\* something in the process sets or unsets an environment variable
EnvChange ==
    /\ pc = "idle"
    /\ \E e \in Envs :
        /\ e # env
        /\ env' = e
        /\ UNCHANGED <<whisper_installed, startup_env, pc, job_input, audio_bytes, transcriber, netLog,
                       getResp, postResp, imported, model_name, tmpFiles, tmp_file,
                       tmp_path, result>>

\* a job arrives
HandlerStart == Handler(Jobs)

\* the jobs of the runs that let the environment change
ConfigJobs ==
    {[has_input |-> TRUE, input |-> Mapping(k, AudioBytes(<<65>>))] :
        k \in {{"audio"}, {"audio_url"}, {"audio"} \cup OptionKeys}}

HandlerStartConfig == Handler(ConfigJobs)

Next ==
    \/ HandlerStart
    \/ GetResponse
    \/ PostResponse
    \/ LocalLoad
    \/ LocalTmp
    \/ LocalTranscribe
    \/ Return

\* the worker in an environment that stays as it was at the start
Spec == Init /\ [][Next]_vars

NextConfig ==
    \/ HandlerStartConfig
    \/ GetResponse
    \/ PostResponse
    \/ LocalLoad
    \/ LocalTmp
    \/ LocalTranscribe
    \/ Return
    \/ EnvChange

\* the worker in an environment that changes between invocations
SpecConfig == Init /\ [][NextConfig]_vars

(***************************************************************************)
(* What the claims speak of.                                               *)
(***************************************************************************)
\* the requests of this invocation with the given method
Sent(method) == {i \in 1..Len(netLog) : netLog[i].method = method}

\* _use_local_whisper has been entered in this invocation
LocalEntered ==
    pc \in {"local_load", "local_tmp", "local_transcribe"} \/ imported # "no"

\* a transcription was attempted: the backend POST or the local model
TranscriptionAttempted == Sent("POST") # {} \/ LocalEntered

\* the GET was answered, and not with a success
GetFailed == getResp.kind # "none" /\ ~(getResp.kind = "response" /\ is_success(getResp))

\* the POST was answered, and not with a success
PostFailed ==
    postResp.kind # "none" /\ ~(postResp.kind = "response" /\ is_success(postResp))

\* an invocation is under way or has ended, with a mapping as its input
HasInput == pc # "idle" /\ job_input.mapping

\* an error message: text, not empty
IsMessage(m) == Len(m) >= 1 /\ \A i \in 1..Len(m) : m[i] # ""

(***************************************************************************)
(* C1.  Whatever fails while the input is read, the audio resolved or the  *)
(* transcription made, handler ends by returning one envelope: a success   *)
(* with a transcription and no error, or an error with a message and no    *)
(* transcription.  No failure leaves handler, and until handler returns    *)
(* there is no result at all.                                              *)
(***************************************************************************)
C1_OneEnvelope ==
    /\ pc # "raised"
    /\ pc # "done" => result = NoResult
    /\ pc = "done" =>
          \/ /\ result.status = "success"
             /\ DOMAIN result = {"status", "transcription"}
             /\ ~GetFailed /\ ~PostFailed
             /\ \/ postResp.kind = "response" /\ postResp.is_json
                \/ tmp_path # NoFile
          \/ /\ result.status = "error"
             /\ DOMAIN result = {"status", "error"}
             /\ IsMessage(result.error)

\* a failure of the backend call has become an error envelope
C1_Witness ==
    pc = "done" /\ postResp.kind = "ReadTimeout" /\ result.status = "error"

(***************************************************************************)
(* C2.  Standard base64 (RFC 4648): digits in groups of four, the last     *)
(* group padded with one or two "=".                                       *)
(***************************************************************************)
IsB64Digit(c) == table_a2b_base64(c) < 64

StandardBase64(s) ==
    /\ Len(s) % 4 = 0
    /\ \E k \in 0..2 :
          /\ k <= Len(s)
          /\ \A i \in 1..Len(s) :
                IF i > Len(s) - k THEN s[i] = "=" ELSE IsB64Digit(s[i])

\* the audio of the job is a text that is not standard base64
AudioIsInvalidBase64 ==
    /\ HasInput
    /\ "audio" \in job_input.keys
    /\ job_input.audio.type = "str"
    /\ ~StandardBase64(job_input.audio.str)

\* C2.  When the audio is a text that is not valid standard base64, the
\* invocation attempts no transcription (no POST, no local model) and ends
\* with an error envelope, never with a success.
C2_InvalidBase64Rejected ==
    AudioIsInvalidBase64 =>
        /\ ~TranscriptionAttempted
        /\ result.status # "success"
        /\ pc = "done" => result.status = "error"

(***************************************************************************)
(* C3.  With "audio_url" and no "audio", a GET that fails (an HTTP status  *)
(* that is no success, or a transport failure or timeout) ends the         *)
(* invocation with an error envelope, and no transcription is attempted:   *)
(* no transcriber is built, no POST sent, the local model not entered.     *)
(***************************************************************************)
C3_DownloadFailureStops ==
    (HasInput /\ "audio" \notin job_input.keys /\ "audio_url" \in job_input.keys
       /\ GetFailed) =>
        /\ pc = "done"
        /\ result.status = "error"
        /\ ~transcriber.built
        /\ ~TranscriptionAttempted

\* the download of a job's URL was answered 404, and handler has returned
C3_Witness ==
    /\ pc = "done"
    /\ job_input.keys = {"audio_url"}
    /\ getResp.kind = "response" /\ getResp.status_code = 404

(***************************************************************************)
(* C4.  When an invocation has ended, by a return or a raise, the          *)
(* temporary file it created is gone, also when writing the audio to it    *)
(* or model.transcribe failed.                                             *)
(***************************************************************************)
C4_TempFileDeleted ==
    pc \in {"done", "raised"} => tmp_file \notin tmpFiles

C6_BackendFailureWrapped ==
    (transcriber.use_external_service /\ PostFailed) =>
        /\ pc = "done"
        /\ result.status = "error"
        /\ DOMAIN result = {"status", "error"}
        /\ result.error =
              <<"Failed to call Whisper service: ", HTTPErrorText(postResp)>>
        /\ ~LocalEntered
        /\ tmp_file = NoFile

\* the backend answered 500 and handler has returned
C6_Witness ==
    /\ pc = "done"
    /\ postResp.kind = "response" /\ postResp.status_code = 500
    /\ result.status = "error"

(***************************************************************************)
(* C7.  A job input with neither "audio" nor "audio_url" always ends with  *)
(* the error envelope of the missing input; nothing is raised, no request  *)
(* is sent and no transcription attempted.                                 *)
(***************************************************************************)
C7_MissingInput ==
    (HasInput /\ "audio" \notin job_input.keys /\ "audio_url" \notin job_input.keys) =>
        /\ pc = "done"
        /\ result =
              [status |-> "error",
               error |-> <<"No audio input provided. Use 'audio' (base64) or 'audio_url'">>]
        /\ netLog = <<>>
        /\ ~transcriber.built
        /\ ~TranscriptionAttempted

\* a job that gives the options but no audio has been answered
C7_Witness ==
    /\ pc = "done"
    /\ job_input.mapping
    /\ job_input.keys = OptionKeys
    /\ result.status = "error"

(***************************************************************************)
(* C8.  The configuration is read once: every invocation uses the backend  *)
(* URL, the token and the model name the process started with, and so      *)
(* takes the same path, also when the environment has changed since.       *)
(***************************************************************************)
C8_ConfigReadOnce ==
    /\ transcriber.built =>
          /\ transcriber.whisper_service_url = startup_env.WHISPER_SERVICE_URL
          /\ transcriber.whisper_api_token = startup_env.WHISPER_API_TOKEN
          /\ transcribe_audio_path(transcriber)
                = transcribe_audio_path(WhisperTranscriber(startup_env))
    /\ model_name # None => model_name = getenv(startup_env, "WHISPER_MODEL", "base")

(***************************************************************************)
(* C9.  Nothing is tried twice: an invocation sends at most one GET and at *)
(* most one POST, and once either has failed or timed out the invocation   *)
(* has ended with an error envelope and sent nothing more.                 *)
(***************************************************************************)
C9_NoRetry ==
    /\ Cardinality(Sent("GET")) <= 1
    /\ Cardinality(Sent("POST")) <= 1
    /\ GetFailed => pc = "done" /\ result.status = "error" /\ Len(netLog) = 1
    /\ PostFailed => pc = "done" /\ result.status = "error"

\* the download went through and the POST after it timed out
C9_Witness ==
    /\ pc = "done"
    /\ Cardinality(Sent("GET")) = 1
    /\ Cardinality(Sent("POST")) = 1
    /\ postResp.kind = "ReadTimeout"

(***************************************************************************)
(* C10.  No backend URL and no local model.                                *)
(***************************************************************************)
\* no backend URL is configured and whisper cannot be imported
NeitherAvailable ==
    ~Truthy(env.WHISPER_SERVICE_URL) /\ ~whisper_installed

\* the audio of the job has resolved to bytes
AudioResolved ==
    /\ HasInput
    /\ LET p == process_audio_input(job_input)
       IN  \/ p.kind = "done" /\ p.res.ok
           \/ p.kind = "download" /\ getResp.kind = "response" /\ is_success(getResp)

\* C10 as stated.  With no backend URL configured and whisper not
\* importable, handler returns the error envelope that says so, creates no
\* temporary file and makes no network call.
C10_NeitherAvailable ==
    (pc = "done" /\ NeitherAvailable) =>
        /\ result = ErrorEnvelope(NotInstalledMsg)
        /\ tmp_file = NoFile
        /\ netLog = <<>>

\* C10 as amended.  With no backend URL configured and whisper not
\* importable, a job whose audio resolves to bytes gets the error envelope
\* that says whisper is not installed and no WHISPER_SERVICE_URL provided;
\* no temporary file is created and no POST is sent: the only request there
\* can be is the one GET of a job whose audio comes from audio_url.
C10_NeitherAvailableResolved ==
    (NeitherAvailable /\ AudioResolved) =>
        /\ pc \in {"local_load", "done"}
        /\ pc = "done" =>
              result =
                [status |-> "error",
                 error |->
                   <<"Whisper not installed locally and no WHISPER_SERVICE_URL provided. ",
                     "Please install openai-whisper or configure WHISPER_SERVICE_URL.">>]
        /\ tmp_file = NoFile
        /\ Sent("POST") = {}
        /\ netLog = IF "audio" \in job_input.keys THEN <<>>
                    ELSE download_audio_requests(job_input.audio_url)

\* the audio was downloaded, and neither backend nor model was there
C10_Witness ==
    /\ pc = "done"
    /\ NeitherAvailable
    /\ getResp.kind = "response" /\ getResp.status_code = 200
    /\ imported = "ImportError"
    /\ result.status = "error"

(***************************************************************************)
(* C11.  The order in which the resolver tries its sources.                *)
(***************************************************************************)
\* "audio" is there and is a str or bytes
AudioIsStrOrBytes ==
    "audio" \in job_input.keys /\ job_input.audio.type \in {"str", "bytes"}

\* what holds of the sources whichever way an unusable "audio" is treated:
\* a str is base64-decoded, bytes are handed on unchanged, downloaded
\* content is handed on unchanged, at most one GET is sent, and with
\* neither key the missing-input error is raised
C11_Sources ==
    /\ Cardinality(Sent("GET")) <= 1
    /\ Sent("GET") # {} => netLog[1] = [method |-> "GET", url |-> <<job_input.audio_url>>,
                                        timeout |-> GetTimeout]
    /\ (transcriber.built /\ "audio" \in job_input.keys) =>
          \/ /\ job_input.audio.type = "str"
             /\ b64decode(job_input.audio.str).ok
             /\ audio_bytes = b64decode(job_input.audio.str).bytes
          \/ /\ job_input.audio.type = "bytes"
             /\ audio_bytes = job_input.audio.bytes
    /\ (transcriber.built /\ "audio" \notin job_input.keys) =>
          /\ getResp.kind = "response"
          /\ audio_bytes = getResp.content
    /\ ("audio" \notin job_input.keys /\ "audio_url" \notin job_input.keys) =>
          /\ pc = "done"
          /\ result = ErrorEnvelope(MissingInputMsg)

\* C11 as stated.  The resolver decodes a str, hands bytes on unchanged,
\* otherwise fetches audio_url if it is there, otherwise fails with the
\* missing-input error: the GET is sent exactly when "audio" gave no str or
\* bytes and "audio_url" is present, so a job whose audio is neither str nor
\* bytes but which has audio_url is resolved from the URL.
C11_UrlWhenNoStrOrBytes ==
    HasInput =>
        /\ C11_Sources
        /\ (Sent("GET") # {}) = (~AudioIsStrOrBytes /\ "audio_url" \in job_input.keys)

\* C11 as amended.  The resolver decodes a str and hands bytes on unchanged;
\* an "audio" that is there but is neither str nor bytes fails with "Audio
\* data must be base64 string or bytes", whether or not audio_url is there;
\* only when "audio" is absent is audio_url fetched, with a single GET, and
\* with neither key the missing-input error is raised.  So the GET is sent
\* exactly when "audio" is absent and "audio_url" is present.
C11_UrlWhenNoAudioKey ==
    HasInput =>
        /\ C11_Sources
        /\ (Sent("GET") # {})
              = ("audio" \notin job_input.keys /\ "audio_url" \in job_input.keys)
        /\ ("audio" \in job_input.keys /\ job_input.audio.type = "other") =>
              /\ pc = "done"
              /\ result =
                    [status |-> "error",
                     error |-> <<"Audio data must be base64 string or bytes">>]
              /\ netLog = <<>>
              /\ ~TranscriptionAttempted

\* a job whose audio is neither str nor bytes and which names a URL has
\* been turned down without a download
C11_Witness ==
    /\ pc = "done"
    /\ job_input.mapping
    /\ {"audio", "audio_url"} \subseteq job_input.keys
    /\ job_input.audio.type = "other"
    /\ result.status = "error"
    /\ netLog = <<>>

====
